---- MODULE Spec2Model ----
(***************************************************************************)
(* Model of the INA219 driver, Adafruit_INA219.cpp.                        *)
(*                                                                         *)
(* One handle (the three cached members of the class), the device          *)
(* registers it talks to over the bus, and one action per public method.   *)
(* The driver is single-threaded and every method runs to completion, so   *)
(* each method is one atomic action; `bus` holds the register transactions *)
(* the most recent call issued, in order.                                  *)
(*                                                                         *)
(* C `float` values are modelled as exact rationals <<n, d>> (d > 0, in    *)
(* lowest terms): the arithmetic of the source is followed operation by    *)
(* operation, without binary rounding.  Two extra values, PosInf and       *)
(* NegInf, stand for floats that left the 32-bit integer range (including  *)
(* the IEEE infinities a division by zero yields).                         *)
(***************************************************************************)
EXTENDS Integers, Sequences, FiniteSets, TLC

VARIABLES
    ina219_currentLsb_mA,   \* member: mA per CURRENT count (rational)
    ina219_powerLsb_mW,     \* member: mW per POWER count (rational)
    ina219_calValue,        \* member: uint16_t, cached CALIBRATION value
    regConfig,              \* device: CONFIG register (0x00)
    regCalibration,         \* device: CALIBRATION register (0x05)
    adc,                    \* device: the four measurement registers
    bus,                    \* transactions issued by the most recent call
    ret,                    \* value returned by the most recent call
    lastCall,               \* history: the most recent call and its arguments
    lastCalib,              \* history: the most recent completed calibration
    lastToggle,             \* history: last toggle per channel since lastCalib
    wrCal,                  \* history: last value the driver wrote to CALIBRATION
    digits,                 \* local `digits` of setCalibration_Def at loop exit
    pc,                     \* "idle", or "loop" while stuck in the rounding loop
    build                   \* how this build converts an out-of-range float

vars == <<ina219_currentLsb_mA, ina219_powerLsb_mW, ina219_calValue,
          regConfig, regCalibration, adc, bus, ret, lastCall, lastCalib,
          lastToggle, wrCal, digits, pc, build>>

(***************************************************************************)
(* Machine integers                                                        *)
(***************************************************************************)
\* uint16_t: values are taken modulo Word
Word == 65536

\* (int16_t)v for a uint16_t v
ToInt16(v) == IF v >= 32768 THEN v - Word ELSE v

RECURSIVE BitAnd(_, _)
BitAnd(a, b) ==
    IF a = 0 \/ b = 0 THEN 0
    ELSE (a % 2) * (b % 2) + 2 * BitAnd(a \div 2, b \div 2)

RECURSIVE BitOr(_, _)
BitOr(a, b) ==
    IF a = 0 THEN b
    ELSE IF b = 0 THEN a
    ELSE (IF (a % 2) + (b % 2) > 0 THEN 1 ELSE 0) + 2 * BitOr(a \div 2, b \div 2)

\* ~m, as far as a uint16_t operand can see it
BitNot(m) == (Word - 1) - m

(***************************************************************************)
(* Register addresses and CONFIG bit fields (Adafruit_INA219.h)            *)
(***************************************************************************)
INA219_REG_CONFIG == 0
INA219_REG_SHUNTVOLTAGE == 1
INA219_REG_BUSVOLTAGE == 2
INA219_REG_POWER == 3
INA219_REG_CURRENT == 4
INA219_REG_CALIBRATION == 5

INA219_CONFIG_BVOLTAGERANGE_MASK == 8192
INA219_CONFIG_BVOLTAGERANGE_16V == 0
INA219_CONFIG_BVOLTAGERANGE_32V == 8192
INA219_CONFIG_GAIN_MASK == 6144
INA219_CONFIG_GAIN_1_40MV == 0
INA219_CONFIG_GAIN_2_80MV == 2048
INA219_CONFIG_GAIN_4_160MV == 4096
INA219_CONFIG_GAIN_8_320MV == 6144
INA219_CONFIG_BADCRES_MASK == 1920
INA219_CONFIG_BADCRES_12BIT == 1024
INA219_CONFIG_BADCRES_12BIT_128S_69MS == 1920
INA219_CONFIG_SADCRES_MASK == 120
INA219_CONFIG_SADCRES_12BIT_1S_532US == 24
INA219_CONFIG_SADCRES_12BIT_128S_69MS == 120
INA219_CONFIG_MODE_MASK == 7
INA219_CONFIG_MODE_SANDBVOLT_CONTINUOUS == 7

(***************************************************************************)
(* float arithmetic, on exact rationals                                    *)
(***************************************************************************)
Abs(n) == IF n < 0 THEN -n ELSE n

RECURSIVE GCD(_, _)
GCD(a, b) == IF b = 0 THEN a ELSE GCD(b, a % b)

\* n/d in lowest terms, d > 0
Rat(n, d) ==
    LET g == GCD(Abs(n), Abs(d))
        s == IF d < 0 THEN -1 ELSE 1
    IN  <<s * (n \div g), s * (d \div g)>>

Zero == <<0, 1>>
PosInf == <<1, 0>>
NegInf == <<-1, 0>>
NoValue == <<0, 0>>

IsFinite(x) == x[2] > 0
RPos(x) == x[1] > 0
RNeg(x) == x[1] < 0
RLeq(x, y) == x[1] * y[2] <= y[1] * x[2]
RLt(x, y) == x[1] * y[2] < y[1] * x[2]

\* x * y for finite x, y; cancels crosswise before multiplying
RMul(x, y) ==
    LET g1 == GCD(Abs(x[1]), y[2])
        g2 == GCD(Abs(y[1]), x[2])
    IN  Rat((x[1] \div g1) * (y[1] \div g2), (x[2] \div g2) * (y[2] \div g1))

\* x / y for finite x # 0 or y # 0; a zero divisor gives the infinity of x's sign
RDiv(x, y) ==
    IF y[1] = 0 THEN (IF RNeg(x) THEN NegInf ELSE PosInf)
    ELSE RMul(x, Rat(y[2], y[1]))

\* the integer part of a finite x, rounding toward zero
Trunc(x) == IF x[1] >= 0 THEN x[1] \div x[2] ELSE -((-x[1]) \div x[2])

RECURSIVE Pow10(_)
Pow10(k) == IF k = 0 THEN 1 ELSE 10 * Pow10(k - 1)

(***************************************************************************)
(* float -> uint16_t                                                       *)
(*                                                                         *)
(* (uint16_t)x is defined only for -1 < x < 65536.  Outside that range the *)
(* conversion is undefined behaviour, and what comes out depends on the    *)
(* build:                                                                  *)
(*   "truncate"  converts through a wide two's-complement integer and      *)
(*               keeps the low 16 bits; a value beyond the wide range      *)
(*               (or an infinity) gives the "integer indefinite" pattern,  *)
(*               whose low 16 bits are 0;                                  *)
(*   "saturate"  converts through an unsigned 32-bit integer that clamps   *)
(*               to 0 .. 2^32 - 1, and keeps the low 16 bits.              *)
(* The values this model sends beyond 2^32 are multiples of 2^16, so their *)
(* low 16 bits are 0 under "truncate" as well.                             *)
(***************************************************************************)
Builds == {"truncate", "saturate"}

CastU16(x, b) ==
    IF x = PosInf THEN (IF b = "saturate" THEN Word - 1 ELSE 0)
    ELSE IF x = NegInf THEN 0
    ELSE IF Trunc(x) >= 0 THEN Trunc(x) % Word
    ELSE IF b = "saturate" THEN 0
    ELSE (Word - ((-Trunc(x)) % Word)) % Word

\* x * 10.0; a product of 2^32 or more is kept as PosInf
Mul10(x) ==
    IF ~IsFinite(x) THEN x
    ELSE IF Trunc(x) >= 429496730 THEN PosInf
    ELSE RMul(x, Rat(10, 1))

(***************************************************************************)
(* setCalibration_Def: the computation                                     *)
(***************************************************************************)
\* the rounding started from max_lsb = i_max_expected / 4096 instead of min_lsb
MinLsb_FromMax(i_max_expected) == RDiv(i_max_expected, Rat(4096, 1))

\* min_lsb = i_max_expected / 32767
MinLsb(i_max_expected) == RDiv(i_max_expected, Rat(32767, 1))

\* the while loop: [hang, cur, digits] from the loop's state (cur, d).
\* hang: the loop is at PosInf with a cast of 0, a state it never leaves.
RECURSIVE RoundLoop(_, _, _)
RoundLoop(cur, d, b) ==
    IF ~RPos(cur) THEN [hang |-> FALSE, cur |-> cur, digits |-> d]
    ELSE IF CastU16(cur, b) # 0
         THEN [hang |-> FALSE,
               cur |-> RDiv(Rat(CastU16(cur, b) + 1, 1), Rat(Pow10(d), 1)),
               digits |-> d]
    ELSE IF cur = PosInf THEN [hang |-> TRUE, cur |-> cur, digits |-> d]
    ELSE RoundLoop(Mul10(cur), d + 1, b)

\* current_lsb and digits after the loop
ChooseLsb(i_max_expected, b) == RoundLoop(MinLsb(i_max_expected), 0, b)

\* swap = 0.04096 / (current_lsb * r_shunt); a product of zero keeps the sign of
\* current_lsb, and so does the infinity
Swap(current_lsb, r_shunt) ==
    IF RMul(current_lsb, r_shunt) = Zero
    THEN (IF RNeg(current_lsb) THEN NegInf ELSE PosInf)
    ELSE RDiv(Rat(4096, 100000), RMul(current_lsb, r_shunt))

\* cal = (uint16_t)swap
CalOf(current_lsb, r_shunt, b) == CastU16(Swap(current_lsb, r_shunt), b)

\* power_lsb * 1000, with power_lsb = current_lsb * 20
PowerLsbOf(current_lsb) == RMul(RMul(current_lsb, Rat(20, 1)), Rat(1000, 1))

BusRangeOf(v_bus_max) ==
    IF RLt(Rat(16, 1), v_bus_max) THEN INA219_CONFIG_BVOLTAGERANGE_32V
    ELSE INA219_CONFIG_BVOLTAGERANGE_16V

\* the gain chain with < for <=: a boundary value takes the larger range
GainOf_Strict(v_shunt_max) ==
    IF RLt(v_shunt_max, Rat(4, 100)) THEN INA219_CONFIG_GAIN_1_40MV
    ELSE IF RLt(v_shunt_max, Rat(8, 100)) THEN INA219_CONFIG_GAIN_2_80MV
    ELSE IF RLt(v_shunt_max, Rat(160, 1000)) THEN INA219_CONFIG_GAIN_4_160MV
    ELSE INA219_CONFIG_GAIN_8_320MV

GainOf(v_shunt_max) ==
    IF RLeq(v_shunt_max, Rat(4, 100)) THEN INA219_CONFIG_GAIN_1_40MV
    ELSE IF RLeq(v_shunt_max, Rat(8, 100)) THEN INA219_CONFIG_GAIN_2_80MV
    ELSE IF RLeq(v_shunt_max, Rat(160, 1000)) THEN INA219_CONFIG_GAIN_4_160MV
    ELSE INA219_CONFIG_GAIN_8_320MV

\* the CONFIG value with the shunt ADC left in 128-sample averaging
ConfigOf_Averaged(bvoltage, gain) ==
    BitOr(bvoltage,
      BitOr(gain,
        BitOr(INA219_CONFIG_BADCRES_12BIT,
          BitOr(INA219_CONFIG_SADCRES_12BIT_128S_69MS,
                INA219_CONFIG_MODE_SANDBVOLT_CONTINUOUS))))

ConfigOf(bvoltage, gain) ==
    BitOr(bvoltage,
      BitOr(gain,
        BitOr(INA219_CONFIG_BADCRES_12BIT,
          BitOr(INA219_CONFIG_SADCRES_12BIT_1S_532US,
                INA219_CONFIG_MODE_SANDBVOLT_CONTINUOUS))))

(***************************************************************************)
(* The three presets                                                       *)
(***************************************************************************)
CurrentLsb_32V_2A == Rat(1, 10)
CalValue_32V_2A == 4096
PowerLsb_32V_2A == Rat(2, 1)
Config_32V_2A ==
    ConfigOf(INA219_CONFIG_BVOLTAGERANGE_32V, INA219_CONFIG_GAIN_8_320MV)

CurrentLsb_32V_1A == Rat(4, 100)
\* the 32V/1A routine with the calibration value of the routine it was copied from
CalValue_32V_1A_Copied == CalValue_32V_2A
CalValue_32V_1A == 10240
PowerLsb_32V_1A == Rat(8, 10)
Config_32V_1A ==
    ConfigOf(INA219_CONFIG_BVOLTAGERANGE_32V, INA219_CONFIG_GAIN_8_320MV)

CurrentLsb_16V_400mA == Rat(5, 100)
CalValue_16V_400mA == 8192
PowerLsb_16V_400mA == Rat(1, 1)
Config_16V_400mA ==
    ConfigOf(INA219_CONFIG_BVOLTAGERANGE_16V, INA219_CONFIG_GAIN_1_40MV)

(***************************************************************************)
(* Inputs                                                                  *)
(***************************************************************************)
\* how many of the device's sample sets the model lets the ADC present
NSamples == 2

SampleSeq ==
    << [bus |-> 8002,  shunt |-> 100,   current |-> 100,   power |-> 50],
       [bus |-> 65535, shunt |-> 65535, current |-> 65436, power |-> 0],
       [bus |-> 32000, shunt |-> 32768, current |-> 32767, power |-> 65535],
       [bus |-> 0,     shunt |-> 0,     current |-> 0,     power |-> 1] >>

Samples == {SampleSeq[i] : i \in 1..(IF NSamples < 4 THEN NSamples ELSE 4)}

\* what the never-assigned member ina219_calValue may hold after construction
UninitValues == {0, 1, 65535}

\* what the device's CONFIG register may hold before the driver writes it
PowerOnConfigs == {0, 14751, 65535}

RShuntValues == {Rat(0, 1), Rat(1, 100), Rat(1, 10)}
VShuntValues == {Rat(1, 100), Rat(4, 100), Rat(5, 100), Rat(8, 100),
                 Rat(1, 10), Rat(16, 100), Rat(17, 100), Rat(32, 100)}
VBusValues == {Rat(16, 1), Rat(17, 1), Rat(32, 1)}
IMaxValues == {Rat(-1, 1), Rat(0, 1), Rat(1, 100), Rat(4, 10), Rat(1, 1),
               Rat(2, 1), Rat(32767, 10000), Rat(32767, 1),
               Rat(2147418112, 1)}

\* <<r_shunt, v_shunt_max, v_bus_max, i_max_expected>>: each parameter over its
\* values with the others at the 0.1 ohm / 0.32 V / 32 V / 2 A operating point,
\* and the zero shunt with a negative current as well
DefInputs ==
    {<<Rat(1, 10), v, Rat(32, 1), Rat(2, 1)>> : v \in VShuntValues}
    \cup {<<Rat(1, 10), Rat(32, 100), v, Rat(2, 1)>> : v \in VBusValues}
    \cup {<<Rat(1, 10), Rat(32, 100), Rat(32, 1), i>> : i \in IMaxValues}
    \cup {<<r, Rat(32, 100), Rat(32, 1), Rat(2, 1)>> : r \in RShuntValues}
    \cup {<<Rat(0, 1), Rat(32, 100), Rat(32, 1), Rat(-1, 1)>>}

(***************************************************************************)
(* RegisterLink                                                            *)
(***************************************************************************)
\* wireWriteRegister(reg, value) and wireReadRegister(reg, &value) on the wire
Wr(reg, value) == [op |-> "W", reg |-> reg, val |-> value]
Rd(reg, value) == [op |-> "R", reg |-> reg, val |-> value]

Call(op, args) == [op |-> op, args |-> args]

(***************************************************************************)
(* Construction                                                            *)
(***************************************************************************)
\* Adafruit_INA219(addr): the two scale factors are zeroed, ina219_calValue
\* is not assigned
Constructed ==
    /\ ina219_currentLsb_mA = Zero
    /\ ina219_powerLsb_mW = Zero
    /\ ina219_calValue \in UninitValues
    /\ bus = <<>>
    /\ ret = NoValue
    /\ lastCall = Call("Adafruit_INA219", <<>>)
    /\ lastCalib = Call("none", <<>>)
    /\ lastToggle = [sadc |-> "calib", badc |-> "calib"]
    /\ wrCal = -1
    /\ digits = 0
    /\ pc = "idle"

Init ==
    /\ Constructed
    /\ regConfig \in PowerOnConfigs
    /\ regCalibration = 0
    /\ adc = SampleSeq[1]
    /\ build \in Builds

(***************************************************************************)
(* Calibration                                                             *)
(***************************************************************************)
\* the tail every calibration routine shares: the three members are set, then
\* CALIBRATION and CONFIG are written, in that order
Calibrate(op, args, profile, currentLsb, calValue, powerLsb, config) ==
    /\ pc = "idle"
    /\ ina219_currentLsb_mA' = currentLsb
    /\ ina219_calValue' = calValue
    /\ ina219_powerLsb_mW' = powerLsb
    /\ regCalibration' = calValue
    /\ regConfig' = config
    /\ bus' = <<Wr(INA219_REG_CALIBRATION, calValue), Wr(INA219_REG_CONFIG, config)>>
    /\ wrCal' = calValue
    /\ ret' = NoValue
    /\ lastCall' = Call(op, args)
    /\ lastCalib' = Call(profile, args)
    /\ lastToggle' = [sadc |-> "calib", badc |-> "calib"]
    /\ UNCHANGED <<adc, pc, build>>

setCalibration_32V_2A ==
    /\ Calibrate("setCalibration_32V_2A", <<>>, "32V_2A", CurrentLsb_32V_2A,
                 CalValue_32V_2A, PowerLsb_32V_2A, Config_32V_2A)
    /\ UNCHANGED digits

setCalibration_32V_1A ==
    /\ Calibrate("setCalibration_32V_1A", <<>>, "32V_1A", CurrentLsb_32V_1A,
                 CalValue_32V_1A, PowerLsb_32V_1A, Config_32V_1A)
    /\ UNCHANGED digits

setCalibration_16V_400mA ==
    /\ Calibrate("setCalibration_16V_400mA", <<>>, "16V_400mA", CurrentLsb_16V_400mA,
                 CalValue_16V_400mA, PowerLsb_16V_400mA, Config_16V_400mA)
    /\ UNCHANGED digits

\* begin(): Wire.begin(), then setCalibration_32V_2A()
begin ==
    /\ Calibrate("begin", <<>>, "32V_2A", CurrentLsb_32V_2A,
                 CalValue_32V_2A, PowerLsb_32V_2A, Config_32V_2A)
    /\ UNCHANGED digits

\* what setCalibration_Def computes from its arguments a under build b: the
\* loop's outcome, then the three members and the CONFIG value
DefOutcome(a, b) ==
    LET lp == ChooseLsb(a[4], b)
    IN  [hang |-> lp.hang,
         digits |-> lp.digits,
         currentLsb |-> IF lp.hang THEN NoValue ELSE RMul(lp.cur, Rat(1000, 1)),
         calValue |-> IF lp.hang THEN 0 ELSE CalOf(lp.cur, a[1], b),
         powerLsb |-> IF lp.hang THEN NoValue ELSE PowerLsbOf(lp.cur),
         config |-> ConfigOf(BusRangeOf(a[3]), GainOf(a[2]))]

\* DefOutcome over the inputs of the model, computed once
DefTable == [a \in DefInputs, b \in Builds |-> DefOutcome(a, b)]

\* setCalibration_Def(r_shunt, v_shunt_max, v_bus_max, i_max_expected), a = the
\* four arguments.  When the rounding loop does not exit the call never returns:
\* nothing after the loop runs.
setCalibration_Def(a) ==
    /\ pc = "idle"
    /\ digits' = DefTable[a, build].digits
    /\ IF DefTable[a, build].hang
       THEN /\ pc' = "loop"
            /\ bus' = <<>>
            /\ ret' = NoValue
            /\ lastCall' = Call("setCalibration_Def", a)
            /\ UNCHANGED <<ina219_currentLsb_mA, ina219_powerLsb_mW,
                           ina219_calValue, regConfig, regCalibration, adc,
                           lastCalib, lastToggle, wrCal, build>>
       ELSE Calibrate("setCalibration_Def", a, "Def",
                      DefTable[a, build].currentLsb,
                      DefTable[a, build].calValue,
                      DefTable[a, build].powerLsb,
                      DefTable[a, build].config)

(***************************************************************************)
(* Raw readers and unit conversions                                        *)
(***************************************************************************)
\* a reader that writes the cached calibration value back before it reads
Reads_Reasserting(op, transactions, value) ==
    /\ pc = "idle"
    /\ bus' = <<Wr(INA219_REG_CALIBRATION, ina219_calValue)>> \o transactions
    /\ regCalibration' = ina219_calValue
    /\ wrCal' = ina219_calValue
    /\ ret' = value
    /\ lastCall' = Call(op, <<>>)
    /\ UNCHANGED <<ina219_currentLsb_mA, ina219_powerLsb_mW, ina219_calValue,
                   regConfig, adc, lastCalib, lastToggle, digits, pc, build>>

\* a call that reads, and changes nothing in the handle or the device
Reads(op, transactions, value) ==
    /\ pc = "idle"
    /\ bus' = transactions
    /\ ret' = value
    /\ lastCall' = Call(op, <<>>)
    /\ UNCHANGED <<ina219_currentLsb_mA, ina219_powerLsb_mW, ina219_calValue,
                   regConfig, regCalibration, adc, lastCalib, lastToggle, wrCal,
                   digits, pc, build>>

\* the bus voltage scaled without dropping the three status bits first
BusVoltageRaw_NoShift(value) == ToInt16((value * 4) % Word)

\* (int16_t)((value >> 3) * 4)
BusVoltageRaw(value) == ToInt16(((value \div 8) * 4) % Word)

getBusVoltage_raw ==
    Reads("getBusVoltage_raw", <<Rd(INA219_REG_BUSVOLTAGE, adc.bus)>>,
          Rat(BusVoltageRaw(adc.bus), 1))

getShuntVoltage_raw ==
    Reads("getShuntVoltage_raw", <<Rd(INA219_REG_SHUNTVOLTAGE, adc.shunt)>>,
          Rat(ToInt16(adc.shunt), 1))

getPower_raw ==
    Reads("getPower_raw", <<Rd(INA219_REG_POWER, adc.power)>>,
          Rat(ToInt16(adc.power), 1))

\* value * 0.01
getShuntVoltage_mV ==
    Reads("getShuntVoltage_mV", <<Rd(INA219_REG_SHUNTVOLTAGE, adc.shunt)>>,
          Rat(ToInt16(adc.shunt), 100))

\* value * 0.001
getBusVoltage_V ==
    Reads("getBusVoltage_V", <<Rd(INA219_REG_BUSVOLTAGE, adc.bus)>>,
          Rat(BusVoltageRaw(adc.bus), 1000))

getPower_mW ==
    Reads("getPower_mW", <<Rd(INA219_REG_POWER, adc.power)>>,
          RMul(Rat(ToInt16(adc.power), 1), ina219_powerLsb_mW))

\* getCurrent_raw without the reassertion of the calibration value
CurrentTransactions_NoReassert(calValue, value) ==
    <<[op |-> "R", reg |-> 4, val |-> value]>>

\* the transactions of getCurrent_raw: the cached calibration value is written,
\* then CURRENT is read
CurrentTransactions(calValue, value) ==
    <<Wr(INA219_REG_CALIBRATION, calValue), Rd(INA219_REG_CURRENT, value)>>

\* getCurrent_raw, and getCurrent_mA on top of it
ReadsCurrent(op, value) ==
    /\ pc = "idle"
    /\ bus' = CurrentTransactions(ina219_calValue, adc.current)
    /\ regCalibration' =
         IF \E i \in 1..Len(bus') :
               bus'[i].op = "W" /\ bus'[i].reg = INA219_REG_CALIBRATION
         THEN ina219_calValue ELSE regCalibration
    /\ wrCal' =
         IF \E i \in 1..Len(bus') :
               bus'[i].op = "W" /\ bus'[i].reg = INA219_REG_CALIBRATION
         THEN ina219_calValue ELSE wrCal
    /\ ret' = value
    /\ lastCall' = Call(op, <<>>)
    /\ UNCHANGED <<ina219_currentLsb_mA, ina219_powerLsb_mW, ina219_calValue,
                   regConfig, adc, lastCalib, lastToggle, digits, pc, build>>

getCurrent_raw == ReadsCurrent("getCurrent_raw", Rat(ToInt16(adc.current), 1))

getCurrent_mA ==
    ReadsCurrent("getCurrent_mA",
                 RMul(Rat(ToInt16(adc.current), 1), ina219_currentLsb_mA))

(***************************************************************************)
(* Sampling-mode toggles                                                   *)
(***************************************************************************)
\* setAmpInstant writing the field value alone, without the read-back CONFIG
AmpInstantValue_Overwrite(value) == INA219_CONFIG_SADCRES_12BIT_1S_532US

\* value & ~MASK | FIELD
AmpInstantValue(value) ==
    BitOr(BitAnd(value, BitNot(INA219_CONFIG_SADCRES_MASK)),
          INA219_CONFIG_SADCRES_12BIT_1S_532US)

\* setAmpAverage clearing the bus-ADC mask, as copied from setVoltAverage
AmpAverageValue_BusMask(value) ==
    BitOr(BitAnd(value, BitNot(INA219_CONFIG_BADCRES_MASK)),
          INA219_CONFIG_SADCRES_12BIT_128S_69MS)

AmpAverageValue(value) ==
    BitOr(BitAnd(value, BitNot(INA219_CONFIG_SADCRES_MASK)),
          INA219_CONFIG_SADCRES_12BIT_128S_69MS)

VoltInstantValue(value) ==
    BitOr(BitAnd(value, BitNot(INA219_CONFIG_BADCRES_MASK)),
          INA219_CONFIG_BADCRES_12BIT)

VoltAverageValue(value) ==
    BitOr(BitAnd(value, BitNot(INA219_CONFIG_BADCRES_MASK)),
          INA219_CONFIG_BADCRES_12BIT_128S_69MS)

\* read CONFIG, change one field, write CONFIG back
Toggle(op, value, channel, mode) ==
    /\ pc = "idle"
    /\ regConfig' = value
    /\ bus' = <<Rd(INA219_REG_CONFIG, regConfig), Wr(INA219_REG_CONFIG, value)>>
    /\ ret' = NoValue
    /\ lastCall' = Call(op, <<>>)
    /\ lastToggle' = [lastToggle EXCEPT ![channel] = mode]
    /\ UNCHANGED <<ina219_currentLsb_mA, ina219_powerLsb_mW, ina219_calValue,
                   regCalibration, adc, lastCalib, wrCal, digits, pc, build>>

setAmpInstant == Toggle("setAmpInstant", AmpInstantValue(regConfig), "sadc", "instant")

setAmpAverage == Toggle("setAmpAverage", AmpAverageValue(regConfig), "sadc", "average")

setVoltInstant == Toggle("setVoltInstant", VoltInstantValue(regConfig), "badc", "instant")

setVoltAverage == Toggle("setVoltAverage", VoltAverageValue(regConfig), "badc", "average")

(***************************************************************************)
(* The device                                                              *)
(***************************************************************************)
\* "a sharp load will reset the INA219, which will reset the cal register"
SurgeReset ==
    /\ pc = "idle"
    /\ regCalibration # 0
    /\ regCalibration' = 0
    /\ UNCHANGED <<ina219_currentLsb_mA, ina219_powerLsb_mW, ina219_calValue,
                   regConfig, adc, bus, ret, lastCall, lastCalib, lastToggle,
                   wrCal, digits, pc, build>>

\* the ADC finishes a conversion: the measurement registers hold a new sample
Convert ==
    /\ pc = "idle"
    /\ adc' \in Samples \ {adc}
    /\ UNCHANGED <<ina219_currentLsb_mA, ina219_powerLsb_mW, ina219_calValue,
                   regConfig, regCalibration, bus, ret, lastCall, lastCalib,
                   lastToggle, wrCal, digits, pc, build>>

(***************************************************************************)
(* Specifications                                                          *)
(***************************************************************************)
Next ==
    \/ begin
    \/ setCalibration_32V_2A
    \/ setCalibration_32V_1A
    \/ setCalibration_16V_400mA
    \/ \E a \in DefInputs : setCalibration_Def(a)
    \/ getBusVoltage_raw
    \/ getShuntVoltage_raw
    \/ getCurrent_raw
    \/ getPower_raw
    \/ getShuntVoltage_mV
    \/ getBusVoltage_V
    \/ getCurrent_mA
    \/ getPower_mW
    \/ setAmpInstant
    \/ setAmpAverage
    \/ setVoltInstant
    \/ setVoltAverage
    \/ SurgeReset
    \/ Convert

Spec == Init /\ [][Next]_vars

\* the toggles and the preset calibrations, from every CONFIG value the device
\* can hold
InitToggle ==
    /\ Constructed
    /\ ina219_calValue = 0
    /\ regConfig \in 0..(Word - 1)
    /\ regCalibration = 0
    /\ adc = SampleSeq[1]
    /\ build = "truncate"

NextToggle ==
    \/ setAmpInstant
    \/ setAmpAverage
    \/ setVoltInstant
    \/ setVoltAverage
    \/ begin
    \/ setCalibration_32V_2A
    \/ setCalibration_32V_1A
    \/ setCalibration_16V_400mA

SpecToggle == InitToggle /\ [][NextToggle]_vars

\* the bus-voltage readers, from every value the BUSVOLTAGE register can hold
InitBusVoltage ==
    /\ Constructed
    /\ ina219_calValue = 0
    /\ regConfig = 0
    /\ regCalibration = 0
    /\ \E v \in 0..(Word - 1) : adc = [SampleSeq[1] EXCEPT !.bus = v]
    /\ build = "truncate"

NextBusVoltage ==
    \/ getBusVoltage_raw
    \/ getBusVoltage_V

SpecBusVoltage == InitBusVoltage /\ [][NextBusVoltage]_vars

(***************************************************************************)
(* Properties                                                              *)
(***************************************************************************)
\* the largest number of multiplications by ten the properties look for
MaxDigits == 9

IsWrite(t, reg) == t.op = "W" /\ t.reg = reg
IsRead(t, reg) == t.op = "R" /\ t.reg = reg

Cached(currentLsb, powerLsb, calValue) ==
    /\ ina219_currentLsb_mA = currentLsb
    /\ ina219_powerLsb_mW = powerLsb
    /\ ina219_calValue = calValue

\* the call's first transaction writes v to CALIBRATION, and no other does
WroteCalibration(v) ==
    /\ Len(bus) >= 1
    /\ bus[1] = Wr(5, v)
    /\ \A i \in 2..Len(bus) : ~IsWrite(bus[i], 5)

\* C1: every getCurrent_raw, also under getCurrent_mA and in every calibration
\* state, issues exactly two transactions: a write of the cached calibration
\* value to CALIBRATION, then the read of CURRENT, with nothing in between.
C1_ReassertThenRead ==
    lastCall.op \in {"getCurrent_raw", "getCurrent_mA"} =>
        /\ Len(bus) = 2
        /\ bus[1] = Wr(5, ina219_calValue)
        /\ IsRead(bus[2], 4)
        /\ wrCal = ina219_calValue

C1_Witness ==
    /\ lastCall.op = "getCurrent_mA"
    /\ lastCalib.op = "Def"
    /\ bus = <<Wr(5, 5851), Rd(4, 100)>>
    /\ ret = Rat(7, 1)

\* C2: each preset caches its literal constants and writes its calibration
\* value to CALIBRATION, whatever the state it is called in.
C2_PresetConstants ==
    /\ lastCall.op \in {"setCalibration_32V_2A", "begin"} =>
           Cached(Rat(1, 10), Rat(2, 1), 4096) /\ WroteCalibration(4096)
    /\ lastCall.op = "setCalibration_32V_1A" =>
           Cached(Rat(4, 100), Rat(8, 10), 10240) /\ WroteCalibration(10240)
    /\ lastCall.op = "setCalibration_16V_400mA" =>
           Cached(Rat(5, 100), Rat(1, 1), 8192) /\ WroteCalibration(8192)

C2_Witness ==
    /\ lastCall.op = "setCalibration_32V_1A"
    /\ ina219_calValue = 10240
    /\ ina219_currentLsb_mA = Rat(4, 100)
    /\ bus[1] = Wr(5, 10240)

\* the 0.1 ohm / 0.32 V / 32 V / 2 A arguments of generic calibration
Args_32V_2A == <<Rat(1, 10), Rat(32, 100), Rat(32, 1), Rat(2, 1)>>

\* C3 as stated: generic calibration at the 32V/2A operating point ends with
\* calibration value 4096 and current-LSB 0.1 mA, and writes 4096.
C3_ReproducesPreset ==
    lastCall = Call("setCalibration_Def", Args_32V_2A) =>
        /\ ina219_calValue = 4096
        /\ ina219_currentLsb_mA = Rat(1, 10)
        /\ WroteCalibration(4096)

\* C3 as amended: generic calibration at the 32V/2A operating point rounds
\* min_lsb = 2/32767 up to 0.00007 A: it ends with current-LSB 0.07 mA, power-LSB
\* 1.4 mW and calibration value 5851 = trunc(0.04096 / (0.00007 * 0.1)), and
\* writes 5851 to CALIBRATION.
C3_RoundsTo70uA ==
    lastCall = Call("setCalibration_Def", Args_32V_2A) =>
        /\ pc = "idle"
        /\ Cached(Rat(7, 100), Rat(14, 10), 5851)
        /\ WroteCalibration(5851)

C3_Witness ==
    /\ lastCall = Call("setCalibration_Def", Args_32V_2A)
    /\ ina219_calValue = 5851
    /\ regCalibration = 5851

\* a call of generic calibration with i_max_expected <= 0
DefNonPositive == \E a \in DefInputs : a[4][1] <= 0 /\ setCalibration_Def(a)

\* C4: generic calibration with i_max_expected <= 0 reports an error, leaves the
\* three cached values alone and writes neither CALIBRATION nor CONFIG.
C4_NonPositiveRejected ==
    [][DefNonPositive =>
          /\ ret' # NoValue
          /\ UNCHANGED <<ina219_currentLsb_mA, ina219_powerLsb_mW, ina219_calValue>>
          /\ \A i \in 1..Len(bus') : bus'[i].op # "W"]_vars

\* the smallest k >= 0 with m * 10^k >= 1, for m > 0
LeastScale(m) ==
    CHOOSE k \in 0..MaxDigits :
        /\ m[1] * Pow10(k) >= m[2]
        /\ \A j \in 0..(k - 1) : m[1] * Pow10(j) < m[2]

\* C5: for every i_max_expected the rounding loop ends: skipped for
\* min_lsb <= 0, left after exactly k multiplications by ten otherwise (k the
\* smallest with min_lsb * 10^k >= 1), and the two register writes follow.
C5_LoopTerminates ==
    lastCall.op = "setCalibration_Def" =>
        /\ pc = "idle"
        /\ digits = IF RPos(MinLsb(lastCall.args[4]))
                    THEN LeastScale(MinLsb(lastCall.args[4])) ELSE 0
        /\ Len(bus) = 2
        /\ IsWrite(bus[1], 5)
        /\ IsWrite(bus[2], 0)

ToggleOps == {"setAmpInstant", "setAmpAverage", "setVoltInstant", "setVoltAverage"}

\* the CONFIG field a toggle is allowed to change
FieldOf(op) ==
    IF op \in {"setAmpInstant", "setAmpAverage"}
    THEN INA219_CONFIG_SADCRES_MASK ELSE INA219_CONFIG_BADCRES_MASK

\* the bus-range and gain bits the most recent calibration chose
CalibRange ==
    CASE lastCalib.op \in {"32V_2A", "32V_1A"} -> INA219_CONFIG_BVOLTAGERANGE_32V
      [] lastCalib.op = "16V_400mA" -> INA219_CONFIG_BVOLTAGERANGE_16V
      [] lastCalib.op = "Def" -> BusRangeOf(lastCalib.args[3])

CalibGain ==
    CASE lastCalib.op \in {"32V_2A", "32V_1A"} -> INA219_CONFIG_GAIN_8_320MV
      [] lastCalib.op = "16V_400mA" -> INA219_CONFIG_GAIN_1_40MV
      [] lastCalib.op = "Def" -> GainOf(lastCalib.args[2])

\* C6: a toggle writes back the CONFIG it read, changed inside its own ADC field
\* only; after a calibration and any toggles, bus range, gain and mode are the
\* calibration's and each ADC field is that of the channel's last toggle.
C6_ToggleIsolation ==
    /\ lastCall.op \in ToggleOps =>
          /\ Len(bus) = 2
          /\ IsRead(bus[1], 0)
          /\ IsWrite(bus[2], 0)
          /\ BitAnd(bus[2].val, BitNot(FieldOf(lastCall.op)))
               = BitAnd(bus[1].val, BitNot(FieldOf(lastCall.op)))
          /\ regConfig = bus[2].val
    /\ lastCalib.op # "none" =>
          /\ BitAnd(regConfig, INA219_CONFIG_BVOLTAGERANGE_MASK) = CalibRange
          /\ BitAnd(regConfig, INA219_CONFIG_GAIN_MASK) = CalibGain
          /\ BitAnd(regConfig, INA219_CONFIG_MODE_MASK)
               = INA219_CONFIG_MODE_SANDBVOLT_CONTINUOUS
          /\ BitAnd(regConfig, INA219_CONFIG_SADCRES_MASK)
               = IF lastToggle.sadc = "average"
                 THEN INA219_CONFIG_SADCRES_12BIT_128S_69MS
                 ELSE INA219_CONFIG_SADCRES_12BIT_1S_532US
          /\ BitAnd(regConfig, INA219_CONFIG_BADCRES_MASK)
               = IF lastToggle.badc = "average"
                 THEN INA219_CONFIG_BADCRES_12BIT_128S_69MS
                 ELSE INA219_CONFIG_BADCRES_12BIT

C6_Witness ==
    /\ lastCall.op = "setAmpAverage"
    /\ lastCalib.op = "16V_400mA"
    /\ lastToggle = [sadc |-> "average", badc |-> "average"]
    /\ bus = <<Rd(0, 1951), Wr(0, 2047)>>

\* the gain the claim's table gives for v_shunt_max = v
TableGain(v) ==
    CASE RLeq(v, Rat(4, 100)) -> INA219_CONFIG_GAIN_1_40MV
      [] RLt(Rat(4, 100), v) /\ RLeq(v, Rat(8, 100)) -> INA219_CONFIG_GAIN_2_80MV
      [] RLt(Rat(8, 100), v) /\ RLeq(v, Rat(16, 100)) -> INA219_CONFIG_GAIN_4_160MV
      [] RLt(Rat(16, 100), v) -> INA219_CONFIG_GAIN_8_320MV

\* C7: the CONFIG generic calibration writes carries the smallest gain range that
\* covers v_shunt_max, a boundary value taking the smaller range, and no smaller
\* v_shunt_max selects a larger range.
C7_SmallestCoveringGain ==
    (lastCall.op = "setCalibration_Def" /\ pc = "idle") =>
        /\ Len(bus) = 2
        /\ IsWrite(bus[2], 0)
        /\ BitAnd(bus[2].val, INA219_CONFIG_GAIN_MASK) = TableGain(lastCall.args[2])
        /\ \A w \in VShuntValues :
              RLeq(w, lastCall.args[2]) =>
                  GainOf(w) <= BitAnd(bus[2].val, INA219_CONFIG_GAIN_MASK)

C7_Witness ==
    /\ lastCall.op = "setCalibration_Def"
    /\ lastCall.args[2] = Rat(8, 100)
    /\ BitAnd(regConfig, INA219_CONFIG_GAIN_MASK) = INA219_CONFIG_GAIN_2_80MV

\* C8: getBusVoltage_raw returns (v >> 3) * 4 for the register value v it read:
\* the same for all eight settings of the three low bits, a multiple of 4 in
\* 0..32764, never negative.
C8_BusVoltageRaw ==
    lastCall.op = "getBusVoltage_raw" =>
        /\ bus = <<Rd(2, adc.bus)>>
        /\ ret = <<(adc.bus \div 8) * 4, 1>>
        /\ \A s \in 0..7 : BusVoltageRaw((adc.bus \div 8) * 8 + s) = ret[1]
        /\ ret[1] \in 0..32764
        /\ ret[1] % 4 = 0

C8_Witness ==
    /\ lastCall.op = "getBusVoltage_raw"
    /\ adc.bus = 65535
    /\ ret = <<32764, 1>>

\* C9: from construction until the first calibration call the three cached
\* values are zero, so a getCurrent_raw made then writes 0 to CALIBRATION.
C9_ZeroBeforeCalibration ==
    lastCalib.op = "none" =>
        /\ Cached(Zero, Zero, 0)
        /\ lastCall.op \in {"getCurrent_raw", "getCurrent_mA"} => bus[1] = Wr(5, 0)

\* C10: once a calibration call has run, the three cached values are the outputs
\* of the most recent one, the value last written to CALIBRATION is its
\* calibration value, and the bus-range and gain bits of CONFIG are its choice.
C10_SingleProfile ==
    lastCalib.op # "none" =>
        /\ CASE lastCalib.op = "32V_2A" -> Cached(Rat(1, 10), Rat(2, 1), 4096)
             [] lastCalib.op = "32V_1A" -> Cached(Rat(4, 100), Rat(8, 10), 10240)
             [] lastCalib.op = "16V_400mA" -> Cached(Rat(5, 100), Rat(1, 1), 8192)
             [] lastCalib.op = "Def" ->
                  Cached(DefTable[lastCalib.args, build].currentLsb,
                         DefTable[lastCalib.args, build].powerLsb,
                         DefTable[lastCalib.args, build].calValue)
        /\ wrCal = ina219_calValue
        /\ BitAnd(regConfig, INA219_CONFIG_BVOLTAGERANGE_MASK) = CalibRange
        /\ BitAnd(regConfig, INA219_CONFIG_GAIN_MASK) = CalibGain

C10_Witness ==
    /\ lastCalib.op = "16V_400mA"
    /\ lastCall.op = "getCurrent_raw"
    /\ lastToggle = [sadc |-> "average", badc |-> "instant"]
    /\ Cached(Rat(5, 100), Rat(1, 1), 8192)
    /\ regCalibration = 8192

\* the least integer >= x, for a finite x >= 0
Ceil(x) == (x[1] + x[2] - 1) \div x[2]

\* min_lsb * 10^k, for k = LeastScale(min_lsb)
ScaledMinLsb(i_max_expected) ==
    RMul(MinLsb(i_max_expected),
         Rat(Pow10(LeastScale(MinLsb(i_max_expected))), 1))

\* ceil(min_lsb * 10^k) / 10^k, in mA
CeilLsb_mA(i_max_expected) ==
    RMul(Rat(Ceil(ScaledMinLsb(i_max_expected)),
             Pow10(LeastScale(MinLsb(i_max_expected)))),
         Rat(1000, 1))

\* C11: for i_max_expected > 0 the current-LSB generic calibration caches is
\* ceil(min_lsb * 10^k) / 10^k with k the smallest scale that brings min_lsb to
\* 1 or more: min_lsb itself when min_lsb * 10^k is an integer, and never below
\* min_lsb.  Stated of the calls whose min_lsb is inside the range of uint16_t.
C11_CeilOfScaledMinLsb ==
    (/\ lastCall.op = "setCalibration_Def"
     /\ pc = "idle"
     /\ RPos(lastCall.args[4])
     /\ Trunc(MinLsb(lastCall.args[4])) < Word) =>
        /\ ina219_currentLsb_mA = CeilLsb_mA(lastCall.args[4])
        /\ RLeq(RMul(MinLsb(lastCall.args[4]), Rat(1000, 1)), ina219_currentLsb_mA)
        /\ ScaledMinLsb(lastCall.args[4])[2] = 1 =>
              ina219_currentLsb_mA = RMul(MinLsb(lastCall.args[4]), Rat(1000, 1))

\* 0.04096 / (current_lsb * r_shunt), from the cached current-LSB (in mA) and the
\* r_shunt of the call
Quotient(r_shunt) == Swap(RDiv(ina219_currentLsb_mA, Rat(1000, 1)), r_shunt)

\* C12: for positive r_shunt and i_max_expected the calibration value cached and
\* written is floor(0.04096 / (current_lsb * r_shunt)); the quotient lies in
\* 0..65535, so nothing wraps.
C12_QuotientFitsUint16 ==
    (/\ lastCall.op = "setCalibration_Def"
     /\ pc = "idle"
     /\ RPos(lastCall.args[1])
     /\ RPos(lastCall.args[4])) =>
        /\ IsFinite(Quotient(lastCall.args[1]))
        /\ Trunc(Quotient(lastCall.args[1])) \in 0..(Word - 1)
        /\ ina219_calValue = Trunc(Quotient(lastCall.args[1]))
        /\ WroteCalibration(Trunc(Quotient(lastCall.args[1])))

\* the calls that write CALIBRATION, and the calls that must not
CalibrationWriters ==
    {"begin", "setCalibration_32V_2A", "setCalibration_32V_1A",
     "setCalibration_16V_400mA", "setCalibration_Def",
     "getCurrent_raw", "getCurrent_mA"}

NonWriters ==
    {"getPower_raw", "getBusVoltage_raw", "getShuntVoltage_raw",
     "getPower_mW", "getBusVoltage_V", "getShuntVoltage_mV"} \cup ToggleOps

HasCalibrationWrite(transactions) ==
    \E i \in 1..Len(transactions) : IsWrite(transactions[i], INA219_REG_CALIBRATION)

\* C13: getPower_raw, getBusVoltage_raw, getShuntVoltage_raw, their unit
\* conversions and the four toggles issue no write to CALIBRATION and leave the
\* register as it is; the register takes a new non-zero value only in a step of
\* a calibration call, begin or getCurrent_raw that writes that value; and a
\* register that differs from the cached calibration value equals it again only
\* after such a step, whose first transaction writes the cached value.
C13_OnlyCalibrationAndCurrentWrite ==
    [][/\ lastCall'.op \in NonWriters =>
             /\ ~HasCalibrationWrite(bus')
             /\ wrCal' = wrCal
             /\ regCalibration' \in {regCalibration, 0}
       /\ (regCalibration' # regCalibration /\ regCalibration' # 0) =>
             /\ lastCall'.op \in CalibrationWriters
             /\ \E i \in 1..Len(bus') :
                   bus'[i] = Wr(INA219_REG_CALIBRATION, regCalibration')
       /\ (regCalibration # ina219_calValue /\ regCalibration' = ina219_calValue') =>
             /\ lastCall'.op \in CalibrationWriters
             /\ bus'[1] = Wr(INA219_REG_CALIBRATION, ina219_calValue')]_vars

\* the device cleared CALIBRATION after a calibration, and the last call, a
\* power read, found and left it cleared while the handle still caches 4096
C13_Witness ==
    /\ lastCalib.op # "none"
    /\ ina219_calValue = CalValue_32V_2A
    /\ regCalibration = 0
    /\ lastCall.op = "getPower_mW"
    /\ ~HasCalibrationWrite(bus)

\* the calls that calibrate
CalibrationCalls ==
    {"begin", "setCalibration_32V_2A", "setCalibration_32V_1A",
     "setCalibration_16V_400mA", "setCalibration_Def"}

\* the shunt-ADC and bus-ADC fields of a CONFIG value
ShuntAdc(config) == BitAnd(config, INA219_CONFIG_SADCRES_MASK)
BusAdc(config) == BitAnd(config, INA219_CONFIG_BADCRES_MASK)

\* C14: a calibration call that returned (three presets, generic, begin) ends
\* with one write of the whole CONFIG register whose shunt-ADC and bus-ADC
\* fields are the single-sample 12-bit values, whatever CONFIG held before; and
\* once a calibration has run, a field holds the 128-sample averaged mode only
\* if its averaging toggle was the last to set it since that calibration.
C14_CalibrationResetsSampling ==
    pc = "idle" =>
        /\ lastCall.op \in CalibrationCalls =>
              /\ Len(bus) = 2
              /\ IsWrite(bus[2], INA219_REG_CONFIG)
              /\ regConfig = bus[2].val
              /\ ShuntAdc(regConfig) = INA219_CONFIG_SADCRES_12BIT_1S_532US
              /\ BusAdc(regConfig) = INA219_CONFIG_BADCRES_12BIT
              /\ lastToggle = [sadc |-> "calib", badc |-> "calib"]
        /\ lastCalib.op # "none" =>
              /\ ShuntAdc(regConfig) = INA219_CONFIG_SADCRES_12BIT_128S_69MS =>
                    lastToggle.sadc = "average"
              /\ BusAdc(regConfig) = INA219_CONFIG_BADCRES_12BIT_128S_69MS =>
                    lastToggle.badc = "average"
              /\ lastToggle.sadc = "calib" =>
                    ShuntAdc(regConfig) = INA219_CONFIG_SADCRES_12BIT_1S_532US
              /\ lastToggle.badc = "calib" =>
                    BusAdc(regConfig) = INA219_CONFIG_BADCRES_12BIT

\* a generic calibration has just rewritten CONFIG: 16 V range, gain 8, and both
\* ADC fields single-sample
C14_Witness ==
    /\ lastCall.op = "setCalibration_Def"
    /\ pc = "idle"
    /\ bus[2] = Wr(INA219_REG_CONFIG, regConfig)
    /\ regConfig = ConfigOf(INA219_CONFIG_BVOLTAGERANGE_16V, INA219_CONFIG_GAIN_8_320MV)
    /\ ShuntAdc(regConfig) = INA219_CONFIG_SADCRES_12BIT_1S_532US
    /\ BusAdc(regConfig) = INA219_CONFIG_BADCRES_12BIT

====
